---- MODULE Spec2Model ----
(***************************************************************************)
(* Model of gbdxtools/ordering.py: the Ordering client, its order() call   *)
(* (sanitise ids, split in batches, one POST per batch) and its status()   *)
(* call (one GET).                                                         *)
(*                                                                         *)
(* Python strings are sequences of character codes (32 is the space, 97    *)
(* the letter a), so that str.strip() and truthiness are computed and not  *)
(* assumed.  Python values handed back to the caller carry their type, so  *)
(* that the empty list [] and the empty dict {} are different values.      *)
(***************************************************************************)
EXTENDS Integers, Sequences, FiniteSets, TLC

VARIABLES pc, op, image_catalog_ids, arg_batch_size, batch_size,
          sanitized_ids, pos, res, posts, gets, responses, ret, err

vars == <<pc, op, image_catalog_ids, arg_batch_size, batch_size,
          sanitized_ids, pos, res, posts, gets, responses, ret, err>>

(* ---------------- bounds and input sets ---------------- *)

\* longest enumerated input list of raw ids
MaxLen == 3

\* the ordering API's maximum batch size (the literal of line 50)
MaxBatch == 100

\* raw ids the caller may pass: "", " ", "a", " a ", "b"
IdPool == {<<>>, <<32>>, <<97>>, <<32, 97, 32>>, <<98>>}

\* single strings the caller may pass instead of a list: the pool and "ab"
StrPool == IdPool \cup {<<97, 98>>}

\* the clean three-digit id "001", "002", ...
BulkId(k) == <<48 + ((k \div 100) % 10), 48 + ((k \div 10) % 10), 48 + (k % 10)>>

BulkList(n) == [k \in 1..n |-> BulkId(k)]

\* long lists of distinct clean ids, around one and two full API batches
BulkLens == {MaxBatch - 1, MaxBatch, MaxBatch + 1, 2 * MaxBatch, 2 * MaxBatch + 1}

SmallLists == UNION {[1..n -> IdPool] : n \in 0..MaxLen}

BulkLists == {BulkList(n) : n \in BulkLens}

SmallBatchSizes == (0 - 2)..3

BigBatchSizes == {MaxBatch - 1, MaxBatch, MaxBatch + 1, MaxBatch + 50}

\* (list, batch_size) arguments of order(): every short list with every
\* batch size, every long list with the large batch sizes
ListCalls == (SmallLists \X (SmallBatchSizes \cup BigBatchSizes))
                \cup (BulkLists \X BigBatchSizes)

StrCalls == StrPool \X (SmallBatchSizes \cup BigBatchSizes)

(* ---------------- Python values ---------------- *)

PyList(s) == [type |-> "list", items |-> s]

PyDict == [type |-> "dict", items |-> <<>>]

NoReturn == [type |-> "none", items |-> <<>>]

(* ---------------- pure helpers of order() ---------------- *)

\* characters str.strip() removes
Whitespace == {9, 10, 11, 12, 13, 32}

RECURSIVE lstrip(_)
lstrip(s) == IF s # <<>> /\ Head(s) \in Whitespace THEN lstrip(Tail(s)) ELSE s

RECURSIVE rstrip(_)
rstrip(s) == IF s # <<>> /\ s[Len(s)] \in Whitespace
             THEN rstrip(SubSeq(s, 1, Len(s) - 1)) ELSE s

strip(s) == rstrip(lstrip(s))

\* what iterating the argument yields: the elements of a list, the
\* one-character strings of a string
IterList(x) == IF x.kind = "str" THEN [i \in 1..Len(x.val) |-> <<x.val[i]>>]
               ELSE x.val

\* set(image_catalog_ids)
PySet(x) == {IterList(x)[i] : i \in 1..Len(IterList(x))}

RECURSIVE Perms(_)
Perms(S) == IF S = {} THEN {<<>>}
            ELSE UNION {{<<e>> \o p : p \in Perms(S \ {e})} : e \in S}

\* the elements of s in the order of their first occurrence
RECURSIVE FirstSeen(_)
FirstSeen(s) ==
    IF Len(s) <= 1 THEN s
    ELSE LET h == Len(s) \div 2
             a == FirstSeen(SubSeq(s, 1, h))
             b == FirstSeen(SubSeq(s, h + 1, Len(s)))
             seen == {a[i] : i \in 1..Len(a)}
             fresh(e) == e \notin seen
         IN a \o SelectSeq(b, fresh)

Reverse(s) == [i \in 1..Len(s) |-> s[Len(s) + 1 - i]]

\* the orders in which the set may be iterated: any order for a small set;
\* for a long one (n! orders) the first-occurrence order and its reverse
IterOrders(x) == IF Cardinality(PySet(x)) <= MaxLen + 1 THEN Perms(PySet(x))
                 ELSE {FirstSeen(IterList(x)), Reverse(FirstSeen(IterList(x)))}

Truthy(s) == Len(s) > 0

\* [id_.strip() for id_ in <iteration q of the set> if id_]
Comprehension(q) ==
    LET kept == SelectSeq(q, Truthy)
    IN [i \in 1..Len(kept) |-> strip(kept[i])]

Sanitize(x) == {Comprehension(q) : q \in IterOrders(x)}

\* line 50 without the truncation to the API maximum
EffectiveBatchSize_NoClamp(b) == b

\* min(100, batch_size)
EffectiveBatchSize(b) == IF MaxBatch < b THEN MaxBatch ELSE b

\* a remainder with the sign of the dividend, as in C
PyMod_Truncated(n, b) == IF b > 0 THEN n % b ELSE n % (0 - b)

\* Python's n % b for b # 0: the result has the sign of the divisor
PyMod(n, b) == IF b > 0 THEN n % b ELSE 0 - ((0 - n) % (0 - b))

\* sanitized_ids[:remain_count], the first ids instead of the last
RemainderSlice_Head(s, rc) == SubSeq(s, 1, rc)

\* sanitized_ids[-remain_count:]
RemainderSlice(s, rc) == SubSeq(s, Len(s) - rc + 1, Len(s))

\* the next tuple izip(*([iter(s)] * b)) yields from iterator position p
NextTuple(s, p, b) == SubSeq(s, p + 1, p + b)

\* izip yields another tuple: there are b >= 1 iterators and b more elements
HasNextTuple(s, p, b) == b >= 1 /\ p + b <= Len(s)

(* ---------------- the service ---------------- *)

\* replies to the k-th POST: failure, success without order_id, success
\* with an empty order_id, success with the order id "o<k>"
PostResponses(k) ==
    { [ok |-> FALSE, has_key |-> FALSE, value |-> <<>>],
      [ok |-> TRUE,  has_key |-> FALSE, value |-> <<>>],
      [ok |-> TRUE,  has_key |-> TRUE,  value |-> <<>>],
      [ok |-> TRUE,  has_key |-> TRUE,  value |-> <<111, 48 + k>>] }

Acq1 == [acquisition_id |-> "A1", location |-> "s3://a1", state |-> "delivered"]

Acq2 == [acquisition_id |-> "A2", location |-> "not_delivered", state |-> "submitted"]

\* replies to the GET: failure, success without acquisitions, success with
\* a list of zero, one or two acquisitions
GetResponses ==
    { [ok |-> FALSE, has_key |-> FALSE, value |-> NoReturn],
      [ok |-> TRUE,  has_key |-> FALSE, value |-> NoReturn],
      [ok |-> TRUE,  has_key |-> TRUE,  value |-> PyList(<<>>)],
      [ok |-> TRUE,  has_key |-> TRUE,  value |-> PyList(<<Acq1>>)],
      [ok |-> TRUE,  has_key |-> TRUE,  value |-> PyList(<<Acq1, Acq2>>)] }

\* order ids asked about: "X", "o1"
StatusIds == {<<88>>, <<111, 49>>}

\* _order_single_batch without r.raise_for_status()
SingleBatchRaises_Never(r) == FALSE

\* results_list.insert(0, order_id) instead of append
SingleBatchResult_Prepend(results_list, r) ==
    IF r.has_key /\ Truthy(r.value) THEN <<r.value>> \o results_list
    ELSE results_list

\* _order_single_batch after the POST got reply r: raise, or append
SingleBatchRaises(r) == ~r.ok

SingleBatchResult(results_list, r) ==
    IF r.has_key /\ Truthy(r.value) THEN Append(results_list, r.value)
    ELSE results_list

\* r.json().get("acquisitions", {})
GetAcquisitions(r) == IF r.has_key THEN r.value ELSE PyDict

(* ---------------- state machine ---------------- *)

Init ==
    /\ pc = "idle"
    /\ op = "none"
    /\ image_catalog_ids = [kind |-> "none", val |-> <<>>]
    /\ arg_batch_size = MaxBatch
    /\ batch_size = MaxBatch
    /\ sanitized_ids = <<>>
    /\ pos = 0
    /\ res = <<>>
    /\ posts = <<>>
    /\ gets = <<>>
    /\ responses = <<>>
    /\ ret = NoReturn
    /\ err = "none"

\* order(): lines 47-56, up to the first network call
CallOrder(x, b) ==
    /\ pc = "idle"
    /\ pc' = "loop"
    /\ op' = "order"
    /\ image_catalog_ids' = x
    /\ arg_batch_size' = b
    /\ batch_size' = EffectiveBatchSize(b)
    /\ sanitized_ids' \in Sanitize(x)
    /\ res' = <<>>
    /\ pos' = 0
    /\ UNCHANGED <<posts, gets, responses, ret, err>>

OrderList == \E c \in ListCalls : CallOrder([kind |-> "list", val |-> c[1]], c[2])

OrderString == \E c \in StrCalls : CallOrder([kind |-> "str", val |-> c[1]], c[2])

\* the POST of _order_single_batch and what follows it
Post(ids, r) ==
    /\ posts' = Append(posts, ids)
    /\ responses' = Append(responses, r)
    /\ IF SingleBatchRaises(r)
       THEN /\ err' = "HTTPError"
            /\ res' = res
       ELSE /\ err' = err
            /\ res' = SingleBatchResult(res, r)

\* one iteration of the for loop: lines 57-58
LoopPost ==
    /\ pc = "loop"
    /\ HasNextTuple(sanitized_ids, pos, batch_size)
    /\ \E r \in PostResponses(Len(posts) + 1) :
          /\ Post(NextTuple(sanitized_ids, pos, batch_size), r)
          /\ pc' = IF SingleBatchRaises(r) THEN "raised" ELSE "loop"
    /\ pos' = pos + batch_size
    /\ UNCHANGED <<op, image_catalog_ids, arg_batch_size, batch_size,
                   sanitized_ids, gets, ret>>

\* line 61 with batch_size = 0
RemainderRaise ==
    /\ pc = "loop"
    /\ ~HasNextTuple(sanitized_ids, pos, batch_size)
    /\ batch_size = 0
    /\ pc' = "raised"
    /\ err' = "ZeroDivisionError"
    /\ UNCHANGED <<op, image_catalog_ids, arg_batch_size, batch_size,
                   sanitized_ids, pos, res, posts, gets, responses, ret>>

\* lines 61-65 without a remainder
RemainderSkip ==
    /\ pc = "loop"
    /\ ~HasNextTuple(sanitized_ids, pos, batch_size)
    /\ batch_size # 0
    /\ PyMod(Len(sanitized_ids), batch_size) <= 0
    /\ pc' = "returned"
    /\ ret' = PyList(res)
    /\ UNCHANGED <<op, image_catalog_ids, arg_batch_size, batch_size,
                   sanitized_ids, pos, res, posts, gets, responses, err>>

\* lines 61-65 with a remainder
RemainderPost ==
    /\ pc = "loop"
    /\ ~HasNextTuple(sanitized_ids, pos, batch_size)
    /\ batch_size # 0
    /\ PyMod(Len(sanitized_ids), batch_size) > 0
    /\ \E r \in PostResponses(Len(posts) + 1) :
          /\ Post(RemainderSlice(sanitized_ids,
                                 PyMod(Len(sanitized_ids), batch_size)), r)
          /\ IF SingleBatchRaises(r)
             THEN pc' = "raised" /\ ret' = ret
             ELSE pc' = "returned" /\ ret' = PyList(res')
    /\ UNCHANGED <<op, image_catalog_ids, arg_batch_size, batch_size,
                   sanitized_ids, pos, gets>>

\* status(): lines 80-84
Status ==
    /\ pc = "idle"
    /\ \E oid \in StatusIds, r \in GetResponses :
          /\ gets' = Append(gets, oid)
          /\ responses' = Append(responses, r)
          /\ IF ~r.ok
             THEN pc' = "raised" /\ err' = "HTTPError" /\ ret' = ret
             ELSE pc' = "returned" /\ err' = err /\ ret' = GetAcquisitions(r)
    /\ op' = "status"
    /\ UNCHANGED <<image_catalog_ids, arg_batch_size, batch_size,
                   sanitized_ids, pos, res, posts>>

Next ==
    \/ OrderList
    \/ OrderString
    \/ LoopPost
    \/ RemainderRaise
    \/ RemainderSkip
    \/ RemainderPost
    \/ Status

Spec == Init /\ [][Next]_vars

(* ---------------- vocabulary of the properties ---------------- *)

RECURSIVE Flatten(_)
Flatten(ss) == IF ss = <<>> THEN <<>> ELSE Head(ss) \o Flatten(Tail(ss))

Range(s) == {s[i] : i \in 1..Len(s)}

NoRepeat(s) == \A i, j \in 1..Len(s) : s[i] = s[j] => i = j

IsListCall == op = "order" /\ image_catalog_ids.kind = "list"

IsStrCall == op = "order" /\ image_catalog_ids.kind = "str"

\* the trimmed, non-empty, de-duplicated ids of a list argument
TrimmedIds(l) == {strip(l[i]) : i \in 1..Len(l)} \ {<<>>}

Min(a, b) == IF a < b THEN a ELSE b

CeilDiv(n, b) == (n + b - 1) \div b

\* the i-th group of b consecutive elements of s, cut at the end of s
Group(s, b, i) == SubSeq(s, (i - 1) * b + 1, Min(i * b, Len(s)))

Ended == pc \in {"returned", "raised"}

\* the order ids the replies so far carry, in submission order
RECURSIVE CarriedIds(_)
CarriedIds(rs) ==
    IF rs = <<>> THEN <<>>
    ELSE (IF Head(rs).has_key THEN <<Head(rs).value>> ELSE <<>>)
             \o CarriedIds(Tail(rs))

\* the non-empty order ids the replies so far carry, in submission order
RECURSIVE NonEmptyIds(_)
NonEmptyIds(rs) ==
    IF rs = <<>> THEN <<>>
    ELSE (IF Head(rs).has_key /\ Head(rs).value # <<>>
          THEN <<Head(rs).value>> ELSE <<>>)
             \o NonEmptyIds(Tail(rs))

(* ---------------- C1 ---------------- *)

\* C1: for a non-empty id list and batchSize >= 1, when all POSTs succeed
\* the ids over all batches POSTed are exactly the trimmed, non-empty,
\* de-duplicated input ids, and no id is in more than one batch.
C1_Coverage ==
    (IsListCall /\ Len(image_catalog_ids.val) > 0 /\ arg_batch_size >= 1
       /\ pc = "returned")
    => /\ Range(Flatten(posts)) = TrimmedIds(image_catalog_ids.val)
       /\ NoRepeat(Flatten(posts))

(* ---------------- C2 ---------------- *)

\* C2: every batch POSTed holds at most min(batchSize, 100) ids; for
\* batchSize > 100 the effective batch size is exactly 100 (a full batch
\* holds exactly 100 ids), and a batchSize in 1..100 is used unchanged.
C2_BatchBound ==
    (op = "order" /\ arg_batch_size >= 1)
    => /\ \A i \in 1..Len(posts) : Len(posts[i]) <= Min(arg_batch_size, 100)
       /\ arg_batch_size > 100 => batch_size = 100
       /\ arg_batch_size \in 1..100 => batch_size = arg_batch_size
       /\ \A i \in 1..Len(posts) :
             i * batch_size <= Len(sanitized_ids) => Len(posts[i]) = batch_size

C2_Witness ==
    /\ op = "order" /\ pc = "returned"
    /\ arg_batch_size > 100
    /\ Len(sanitized_ids) > 100
    /\ Len(posts) = 2 /\ Len(posts[1]) = 100

(* ---------------- C3 ---------------- *)

\* C3: for batchSize in 1..100 and a working list of n ids, when all POSTs
\* succeed there are exactly ceil(n / batchSize) POSTs: floor(n / batchSize)
\* batches of batchSize consecutive ids, then one batch of the last
\* n mod batchSize ids, omitted when n is a multiple of batchSize.
C3_Partition ==
    (op = "order" /\ arg_batch_size \in 1..100 /\ pc = "returned")
    => LET n == Len(sanitized_ids)
           b == arg_batch_size
       IN /\ Len(posts) = CeilDiv(n, b)
          /\ \A i \in 1..Len(posts) : posts[i] = Group(sanitized_ids, b, i)
          /\ \A i \in 1..(n \div b) : Len(posts[i]) = b
          /\ n % b > 0 => Len(posts[Len(posts)]) = n % b
          /\ n % b = 0 => Len(posts) = n \div b

C3_Witness ==
    /\ op = "order" /\ pc = "returned"
    /\ arg_batch_size = 2
    /\ Len(sanitized_ids) = 3
    /\ NoRepeat(sanitized_ids)
    /\ Len(posts) = 2 /\ Len(posts[2]) = 1

(* ---------------- C4 ---------------- *)

\* C4: order of an empty list, or of a list holding only empty or blank
\* strings, returns the empty list and issues no network call.
C4_BlankList ==
    (IsListCall /\ arg_batch_size >= 1
       /\ \A i \in 1..Len(image_catalog_ids.val) :
             strip(image_catalog_ids.val[i]) = <<>>)
    => /\ posts = <<>> /\ gets = <<>>
       /\ pc # "raised"
       /\ pc = "returned" => ret = PyList(<<>>)

(* ---------------- C5 ---------------- *)

\* C5: ids are trimmed before they are de-duplicated and filtered: no empty
\* or blank id is ever submitted, no id is submitted twice, and
\* order(["a", "a", " a "]) issues exactly one POST, of the batch ["a"].
C5_TrimThenDedup ==
    (op = "order" /\ arg_batch_size >= 1)
    => /\ \A i \in 1..Len(posts) : \A j \in 1..Len(posts[i]) :
             strip(posts[i][j]) # <<>>
       /\ NoRepeat(Flatten(posts))
       /\ (IsListCall /\ pc = "returned"
             /\ image_catalog_ids.val = <<(<<97>>), (<<97>>), (<<32, 97, 32>>)>>)
          => posts = << <<(<<97>>)>> >>

(* ---------------- C6 ---------------- *)

\* C6: a single non-blank string s is one catalog id: order(s) issues
\* exactly one POST, of the batch [strip(s)], never the characters of s.
C6_SingleString ==
    (IsStrCall /\ arg_batch_size >= 1 /\ strip(image_catalog_ids.val) # <<>>)
    => /\ pc = "returned" => posts = << <<strip(image_catalog_ids.val)>> >>
       /\ \A i \in 1..Len(posts) : posts[i] = <<strip(image_catalog_ids.val)>>

(* ---------------- C7 ---------------- *)

\* C7: if the POST of batch k fails, the call ends with that transport
\* error: exactly the batches 1..k have been POSTed, none after it, and no
\* order id is returned, those of batches 1..k-1 included.
C7_FailureAborts ==
    op = "order"
    => /\ \A k \in 1..Len(responses) :
             ~responses[k].ok
             => /\ k = Len(responses) /\ k = Len(posts)
                /\ pc = "raised" /\ err = "HTTPError"
                /\ ret = NoReturn
                /\ \A i \in 1..k : posts[i] = Group(sanitized_ids, batch_size, i)
       /\ (pc = "raised" /\ err = "HTTPError")
          => (posts # <<>> /\ ~responses[Len(responses)].ok)
       /\ Len(posts) = Len(responses)

C7_Witness ==
    /\ op = "order" /\ pc = "raised" /\ err = "HTTPError"
    /\ Len(sanitized_ids) = 3 /\ batch_size = 1
    /\ Len(posts) = 2
    /\ res # <<>>
    /\ ret = NoReturn

(* ---------------- C8 ---------------- *)

\* C8: status issues exactly one GET and no POST; on success it returns the
\* value under acquisitions, or an empty list when the key is absent; on a
\* failure it propagates the transport error and returns nothing.
C8_Status ==
    op = "status"
    => /\ Len(gets) = 1 /\ posts = <<>>
       /\ (responses[1].ok /\ responses[1].has_key)
          => (pc = "returned" /\ ret = responses[1].value)
       /\ (responses[1].ok /\ ~responses[1].has_key)
          => (pc = "returned" /\ ret = PyList(<<>>))
       /\ ~responses[1].ok
          => (pc = "raised" /\ err = "HTTPError" /\ ret = NoReturn)

(* ---------------- C9 ---------------- *)

C10_NonPositiveBatch ==
    (op = "order" /\ arg_batch_size < 1)
    => /\ posts = <<>> /\ gets = <<>>
       /\ arg_batch_size = 0
          => (pc # "returned" /\ (pc = "raised" => err = "ZeroDivisionError")
              /\ ret = NoReturn)
       /\ arg_batch_size < 0
          => (pc # "raised" /\ err = "none"
              /\ (pc = "returned" => ret = PyList(<<>>)))

C10_Witness ==
    /\ op = "order" /\ pc = "returned"
    /\ arg_batch_size < 0
    /\ Len(sanitized_ids) = 3
    /\ ret = PyList(<<>>)

====
